---- MODULE Spec2Model ----
(***************************************************************************)
(* Model of src/adapter/socket/memcache.js: a memcache ASCII protocol      *)
(* client over one TCP connection.  Strings are sequences of characters    *)
(* (one-letter strings; "U+00E9" and "U+FFFD" are single characters),      *)
(* socket data are sequences of bytes (an ASCII byte is written as its     *)
(* character, "C3" "A9" are the two bytes of the UTF-8 form of U+00E9).    *)
(***************************************************************************)
EXTENDS Integers, Sequences, FiniteSets, TLC

VARIABLES
  handle,     \* this.handle: 0 is null, otherwise the id of a transport
  promise,    \* this.promise: 0 is undefined, otherwise the deferred made by connect() for that transport
  buffer,     \* this.buffer
  callbacks,  \* this.callbacks: sequence of [type, id]; id names the callback closure of one query
  sock,       \* net.Socket of every transport: its readyState and the 'connect' deferred
  wire,       \* bytes the server has sent on each transport that no 'data' event has delivered yet
  written,    \* what handle.write() has put on each transport: the ids of the queries, in order
  answered,   \* how many written commands of each transport the server has replied to
  req,        \* every query() call: where it stands and the reply the server picks for it
  done,       \* the calls callback(error, value) made so far, in order
  emitted,    \* the notification this.emit sent last: its name and argument
  closedWith, \* the ids that were in this.callbacks at a call of close()
  timeouts,   \* the number of 'timeout' events so far
  sockApi,    \* whether the object has setTimeout and setNoDelay methods (the class defines none)
  input       \* the stream and the queue a parse run started from

vars == <<handle, promise, buffer, callbacks, sock, wire, written, answered,
          req, done, emitted, closedWith, timeouts, sockApi, input>>

----------------------------------------------------------------------------
(* JavaScript values and numbers *)

Undefined == [t |-> "undefined", s |-> <<>>]
Null == [t |-> "null", s |-> <<>>]
Str(s) == [t |-> "string", s |-> s]
\* ToBoolean of undefined, null or a string
Truthy(v) == v.t = "string" /\ v.s # <<>>

NaN == [nan |-> TRUE, n |-> 0]
Num(n) == [nan |-> FALSE, n |-> n]
Plus(a, b) == IF a.nan \/ b.nan THEN NaN ELSE Num(a.n + b.n)
\* a > n for a number a and an integer n: false for NaN
Greater(a, n) == ~a.nan /\ a.n > n

Min(a, b) == IF a < b THEN a ELSE b
Max(a, b) == IF a > b THEN a ELSE b

----------------------------------------------------------------------------
(* String primitives, 0-based as in JavaScript *)

\* whether p occurs in s at index i
OccursAt(s, p, i) == s[i + 1] = p[1] /\ \A j \in 2..Len(p) : s[i + j] = p[j]

\* String.prototype.indexOf: the least index where p occurs in s, -1 if there is none
IndexOf(s, p) ==
  LET Least(hits) == IF hits = {} THEN -1 ELSE CHOOSE i \in hits : \A j \in hits : i <= j
  IN CHOOSE r \in {Least(h) : h \in {{i \in 0..(Len(s) - Len(p)) : OccursAt(s, p, i)}}} : TRUE

\* String.prototype.substr(start, length) for start >= 0 and an integer length
Substr(s, start, len) ==
  IF start >= Len(s) THEN <<>>
  ELSE SubSeq(s, start + 1, start + Min(Max(len, 0), Len(s) - start))

\* String.prototype.substring(pos): NaN and negatives count as 0
Substring(s, pos) ==
  LET p == IF pos.nan THEN 0 ELSE Min(Max(pos.n, 0), Len(s))
  IN SubSeq(s, p + 1, Len(s))

\* String.prototype.split(' ')
RECURSIVE Split(_)
Split(s) ==
  LET i == IndexOf(s, <<" ">>)
  IN IF i = -1 THEN <<s>>
     ELSE <<SubSeq(s, 1, i)>> \o Split(SubSeq(s, i + 2, Len(s)))

Digits == <<"0", "1", "2", "3", "4", "5", "6", "7", "8", "9">>
IsDigit(c) == \E i \in 1..10 : Digits[i] = c
DigitVal(c) == (CHOOSE i \in 1..10 : Digits[i] = c) - 1
IsSpace(c) == c \in {" ", "\r", "\n", "\t"}

RECURSIVE TrimLeft(_)
TrimLeft(s) == IF s # <<>> /\ IsSpace(Head(s)) THEN TrimLeft(Tail(s)) ELSE s
RECURSIVE TrimRight(_)
TrimRight(s) ==
  IF s # <<>> /\ IsSpace(s[Len(s)]) THEN TrimRight(SubSeq(s, 1, Len(s) - 1)) ELSE s

\* the value of the longest run of decimal digits s starts with, given the value so far
RECURSIVE DigitRun(_, _)
DigitRun(s, acc) ==
  IF s # <<>> /\ IsDigit(Head(s)) THEN DigitRun(Tail(s), 10 * acc + DigitVal(Head(s))) ELSE acc

\* parseInt of a string (decimal): leading white space, a sign, then digits; NaN without a digit
ParseIntStr(s) ==
  LET t == TrimLeft(s)
      neg == t # <<>> /\ Head(t) = "-"
      u == IF t # <<>> /\ Head(t) \in {"-", "+"} THEN Tail(t) ELSE t
  IN IF u = <<>> \/ ~IsDigit(Head(u)) THEN NaN
     ELSE Num(IF neg THEN 0 - DigitRun(u, 0) ELSE DigitRun(u, 0))

\* parseInt of undefined, a string, or a number already integral
parseInt(v) == IF v.t = "undefined" THEN NaN ELSE ParseIntStr(v.s)

\* ToInteger(ToNumber(string)): the whole trimmed string has to be a number, NaN counts as 0
ToIntegerStr(s) ==
  LET t == TrimRight(TrimLeft(s))
      neg == t # <<>> /\ Head(t) = "-"
      u == IF t # <<>> /\ Head(t) \in {"-", "+"} THEN Tail(t) ELSE t
  IN IF u = <<>> \/ \E i \in 1..Len(u) : ~IsDigit(u[i]) THEN 0
     ELSE IF neg THEN 0 - DigitRun(u, 0) ELSE DigitRun(u, 0)

\* Buffer.prototype.toString(): UTF-8 decoding of one chunk; a lead byte without its
\* continuation byte and a continuation byte without its lead byte decode to U+FFFD
toString(bytes) ==
  LET Char(i) == IF bytes[i] = "C3" /\ i < Len(bytes) /\ bytes[i + 1] = "A9" THEN "U+00E9"
                 ELSE IF bytes[i] \in {"C3", "A9"} THEN "U+FFFD"
                 ELSE bytes[i]
      \* a continuation byte right after its lead byte is part of the lead byte's character
      Starts(i) == ~(bytes[i] = "A9" /\ i > 1 /\ bytes[i - 1] = "C3")
      starts == SelectSeq([i \in 1..Len(bytes) |-> i], Starts)
  IN [k \in 1..Len(starts) |-> Char(starts[k])]

----------------------------------------------------------------------------
(* Constants of the module *)

CRLF == <<"\r", "\n">>
CRLF_LENGTH == Len(CRLF)
sERROR == <<"E", "R", "R", "O", "R">>
sNOT_FOUND == <<"N", "O", "T", "_", "F", "O", "U", "N", "D">>
sCLIENT_ERROR == <<"C", "L", "I", "E", "N", "T", "_">> \o sERROR
sSERVER_ERROR == <<"S", "E", "R", "V", "E", "R", "_">> \o sERROR
ERRORS == <<sERROR, sNOT_FOUND, sCLIENT_ERROR, sSERVER_ERROR>>
ERRORS_LENGTH == Len(ERRORS)
sEND == <<"E", "N", "D">>
sVALUE == <<"V", "A", "L", "U", "E">>

\* read line data
readLine(string) ==
  LET pos == IndexOf(string, CRLF)
  IN IF pos > -1 THEN Substr(string, 0, pos) ELSE string

----------------------------------------------------------------------------
(* The parse routines: each returns [value, pos, error] *)

Result(value, pos, error) == [isFalse |-> FALSE, value |-> value, pos |-> pos, error |-> error]
False == [isFalse |-> TRUE, value |-> Undefined, pos |-> NaN, error |-> Undefined]

handleError(buf) ==
  LET line == readLine(buf)
  IN Result(Null, Num(Len(line) + CRLF_LENGTH), Str(line))

\* handleGet with the trailer counted as 4 characters
handleGetLongTrailer(buf) ==
  LET end == 4
      firstPos == IndexOf(buf, CRLF) + CRLF_LENGTH
  IN IF IndexOf(buf, sEND) = 0
       THEN Result(Null, Num(end + CRLF_LENGTH), Undefined)
     ELSE IF IndexOf(buf, sVALUE) = 0 /\ IndexOf(buf, sEND) > -1
       THEN LET endPos == IndexOf(buf, sEND)
                resultLen == endPos - firstPos - CRLF_LENGTH
            IN Result(Str(Substr(buf, firstPos, resultLen)),
                      Num(firstPos + resultLen + CRLF_LENGTH + end + CRLF_LENGTH),
                      Undefined)
     ELSE LET fields == Split(Substr(buf, 0, firstPos))
              resultLen == IF Len(fields) >= 4 THEN Str(fields[4]) ELSE Undefined
              value == IF resultLen.t = "undefined"
                         THEN Substr(buf, firstPos, Len(buf))
                         ELSE Substr(buf, firstPos, ToIntegerStr(resultLen.s))
          IN Result(Str(value),
                    Plus(Plus(Num(firstPos), parseInt(resultLen)),
                         Num(CRLF_LENGTH + end + CRLF_LENGTH)),
                    Undefined)

handleGet(buf) ==
  LET end == 3
      firstPos == IndexOf(buf, CRLF) + CRLF_LENGTH
  IN IF IndexOf(buf, sEND) = 0
       THEN Result(Null, Num(end + CRLF_LENGTH), Undefined)
     ELSE IF IndexOf(buf, sVALUE) = 0 /\ IndexOf(buf, sEND) > -1
       THEN LET endPos == IndexOf(buf, sEND)
                resultLen == endPos - firstPos - CRLF_LENGTH
            IN Result(Str(Substr(buf, firstPos, resultLen)),
                      Num(firstPos + resultLen + CRLF_LENGTH + end + CRLF_LENGTH),
                      Undefined)
     ELSE LET fields == Split(Substr(buf, 0, firstPos))
              resultLen == IF Len(fields) >= 4 THEN Str(fields[4]) ELSE Undefined
              value == IF resultLen.t = "undefined"
                         THEN Substr(buf, firstPos, Len(buf))
                         ELSE Substr(buf, firstPos, ToIntegerStr(resultLen.s))
          IN Result(Str(value),
                    Plus(Plus(Num(firstPos), parseInt(resultLen)),
                         Num(CRLF_LENGTH + end + CRLF_LENGTH)),
                    Undefined)

handleSimple(buf) ==
  LET line == readLine(buf)
  IN Result(Str(line), Num(Len(line) + CRLF_LENGTH), Null)

handleVersion(buf) ==
  LET pos == IndexOf(buf, CRLF)
  IN Result(Str(Substr(buf, 8, pos - 8)), Num(pos + CRLF_LENGTH), Null)

\* the command types of the facade: get; store, delete, increment, decrement; version
Types == {"get", "simple", "version"}

----------------------------------------------------------------------------
(* The commands of the facade *)

sKey == <<"k">>
sGet == <<"g", "e", "t">>
sSet == <<"s", "e", "t">>
sDelete == <<"d", "e", "l", "e", "t", "e">>
sVersion == <<"v", "e", "r", "s", "i", "o", "n">>

\* Array.prototype.join(' ')
RECURSIVE Join(_)
Join(fields) ==
  IF Len(fields) = 1 THEN fields[1] ELSE fields[1] \o <<" ">> \o Join(Tail(fields))

\* Number.prototype.toString of a non-negative integer
RECURSIVE Decimal(_)
Decimal(n) == IF n < 10 THEN <<Digits[n + 1]>> ELSE Decimal(n \div 10) \o <<Digits[(n % 10) + 1]>>

\* the UTF-8 form of a string, as socket.write and Buffer.byteLength compute it
RECURSIVE Encode(_)
Encode(s) ==
  IF s = <<>> THEN <<>>
  ELSE (CASE Head(s) = "U+00E9" -> <<"C3", "A9">>
          [] Head(s) = "U+FFFD" -> <<"EF", "BF", "BD">>
          [] OTHER -> <<Head(s)>>) \o Encode(Tail(s))
byteLength(s) == Len(Encode(s))

\* get(key), delete(key), version(): the query string
get(key) == sGet \o <<" ">> \o key
delete(key) == sDelete \o <<" ">> \o key
version == sVersion
\* store(key, value, type, lifetime, flags) with lifetime and flags left out: the query string
store(key, value, type) ==
  LET lifetime == 0
      flags == 0
      length == byteLength(value)
  IN Join(<<type, key, Decimal(flags), Decimal(lifetime), Decimal(length)>>) \o CRLF \o value

\* the query string of a call of each type
Command(type) ==
  CASE type = "get" -> get(sKey)
    [] type = "simple" -> delete(sKey)
    [] type = "version" -> version

----------------------------------------------------------------------------
(* The parse loop *)

getHandleResult(buf, cbs) ==
  IF IndexOf(buf, CRLF) = -1 THEN False
  ELSE IF \E i \in 1..ERRORS_LENGTH : IndexOf(buf, ERRORS[i]) > -1 THEN handleError(buf)
  ELSE IF cbs # <<>>
    THEN CASE cbs[1].type = "get" -> handleGet(buf)
           [] cbs[1].type = "simple" -> handleSimple(buf)
           [] cbs[1].type = "version" -> handleVersion(buf)
  ELSE False

\* one call callback(error, value) of the closure of query id; consumed is the number of
\* characters the parse loop took off the buffer for it
Call(id, error, value, consumed) ==
  [id |-> id, error |-> error, value |-> value, consumed |-> consumed]

\* the loop body with this.callbacks[0] in place of this.callbacks.shift(): the entry
\* stays at the head of the queue
loopBodyPeek(buf, cbs) ==
  LET break == [stop |-> TRUE, buffer |-> buf, callbacks |-> cbs, calls |-> <<>>]
      Body(result) ==
        IF result.isFalse THEN break
        ELSE IF Greater(result.pos, Len(buf)) THEN break
        ELSE LET rest == Substring(buf, result.pos)
                 call == Call(cbs[1].id, result.error, result.value, Len(buf) - Len(rest))
             IN [stop |-> FALSE,
                 buffer |-> rest,
                 callbacks |-> cbs,
                 calls |-> IF cbs = <<>> THEN <<>> ELSE <<call>>]
  IN CHOOSE out \in {Body(result) : result \in {getHandleResult(buf, cbs)}} : TRUE

\* one pass of the body of the while loop of handleData on buffer buf and queue cbs:
\* whether it breaks out of the loop, the buffer and the queue it leaves, the call it makes
loopBody(buf, cbs) ==
  LET break == [stop |-> TRUE, buffer |-> buf, callbacks |-> cbs, calls |-> <<>>]
      Body(result) ==
        IF result.isFalse THEN break
        ELSE IF Greater(result.pos, Len(buf)) THEN break
        ELSE LET rest == Substring(buf, result.pos)
                 call == Call(cbs[1].id, result.error, result.value, Len(buf) - Len(rest))
             IN [stop |-> FALSE,
                 buffer |-> rest,
                 callbacks |-> IF cbs = <<>> THEN <<>> ELSE Tail(cbs),
                 calls |-> IF cbs = <<>> THEN <<>> ELSE <<call>>]
  IN CHOOSE out \in {Body(result) : result \in {getHandleResult(buf, cbs)}} : TRUE

\* the loop of handleData on buffer buf and queue cbs; fired collects the calls of callbacks
RECURSIVE handleData(_, _, _)
handleData(buf, cbs, fired) ==
  LET stop == [buffer |-> buf, callbacks |-> cbs, fired |-> fired]
      Continue(r) ==
        IF r.stop THEN stop ELSE handleData(r.buffer, r.callbacks, fired \o r.calls)
  IN IF ~(Len(buf) > 0) THEN stop
     ELSE CHOOSE out \in {Continue(r) : r \in {loopBody(buf, cbs)}} : TRUE

----------------------------------------------------------------------------
(* Bounds *)

MaxQueries == 2      \* calls of query() in one run of the session
MaxTransports == 2   \* transports one session opens
MaxTimeouts == 1     \* 'timeout' events in one run of the session
MaxReplies == 2      \* replies in the stream of a parse run
MaxQueue == 2        \* pending requests at the start of a parse run
MaxLines == 2        \* lines in the buffer at the start of a loop run

----------------------------------------------------------------------------
(* The server: the replies of the memcache ASCII protocol it may send.  err and val are  *)
(* what the protocol says the reply means to the command of type `type`.                 *)

sp == <<" ">>
sHello == <<"h", "e", "l", "l", "o">>
sSTORED == <<"S", "T", "O", "R", "E", "D">>
sVERSION == <<"V", "E", "R", "S", "I", "O", "N">>
ValueHeader(n) == sVALUE \o sp \o <<"k">> \o sp \o <<"0">> \o sp \o n
ValueFrame(n, payload) == ValueHeader(n) \o CRLF \o payload \o CRLF \o sEND \o CRLF
Reply(type, bytes, err, val) == [type |-> type, bytes |-> bytes, err |-> err, val |-> val]

MissReply == Reply("get", sEND \o CRLF, Undefined, Null)
HelloReply == Reply("get", ValueFrame(<<"5">>, sHello), Undefined, Str(sHello))
CrlfValueReply == Reply("get", ValueFrame(<<"2">>, CRLF), Undefined, Str(CRLF))
EndValueReply == Reply("get", ValueFrame(<<"3">>, sEND), Undefined, Str(sEND))
ErrorValueReply == Reply("get", ValueFrame(<<"5">>, sERROR), Undefined, Str(sERROR))
Utf8ValueReply == Reply("get", ValueFrame(<<"2">>, <<"C3", "A9">>), Undefined, Str(<<"U+00E9">>))
StoredReply == Reply("simple", sSTORED \o CRLF, Null, Str(sSTORED))
NotFoundReply == Reply("simple", sNOT_FOUND \o CRLF, Str(sNOT_FOUND), Null)
VersionReply == Reply("version", sVERSION \o sp \o <<"1">> \o CRLF, Null, Str(<<"1">>))

Replies == <<MissReply, HelloReply, CrlfValueReply, EndValueReply, ErrorValueReply,
             Utf8ValueReply, StoredReply, NotFoundReply, VersionReply>>
IndicesOf(S) == {r \in 1..Len(Replies) : Replies[r] \in S}

\* the replies the server of a session run picks from
SessionReplies == IndicesOf({MissReply, StoredReply, NotFoundReply, VersionReply})

RECURSIVE Stream(_)
Stream(rs) == IF rs = <<>> THEN <<>> ELSE Replies[Head(rs)].bytes \o Stream(Tail(rs))

\* the streams of a parse run: any reply first, then short status lines
FollowReplies == IndicesOf({StoredReply, NotFoundReply})
RECURSIVE Streams(_)
Streams(n) ==
  IF n = 1 THEN {<<r>> : r \in 1..Len(Replies)}
  ELSE Streams(n - 1) \cup {Append(s, r) : s \in {t \in Streams(n - 1) : Len(t) = n - 1},
                                            r \in FollowReplies}

\* the queues of a parse run: a request of any type first, then requests answered by
\* status lines
FollowTypes == {"simple"}
RECURSIVE Queues(_)
Queues(n) ==
  IF n = 0 THEN {<<>>}
  ELSE IF n = 1 THEN {<<>>} \cup {<<t>> : t \in Types}
  ELSE Queues(n - 1) \cup {Append(s, t) : s \in {u \in Queues(n - 1) : Len(u) = n - 1},
                                          t \in FollowTypes}

----------------------------------------------------------------------------
(* The session *)

Transports == 1..MaxTransports
sCONNECTION_CLOSED ==
  <<"C", "O", "N", "N", "E", "C", "T", "I", "O", "N", "_", "C", "L", "O", "S", "E", "D">>
sTIMEOUT == <<"T", "I", "M", "E", "O", "U", "T">>

NoSocket == [state |-> "none", ready |-> FALSE]
NoRequest == [st |-> "none", query |-> <<>>, type |-> "none", promise |-> 0, reply |-> 0,
              wrote |-> FALSE, early |-> FALSE]
NoInput == [replies |-> <<>>, queue |-> <<>>]

\* constructor, init
Init ==
  /\ handle = 0
  /\ promise = 0
  /\ buffer = <<>>
  /\ callbacks = <<>>
  /\ sock = [t \in Transports |-> NoSocket]
  /\ wire = [t \in Transports |-> <<>>]
  /\ written = [t \in Transports |-> <<>>]
  /\ answered = [t \in Transports |-> 0]
  /\ req = [q \in 1..MaxQueries |-> NoRequest]
  /\ done = <<>>
  /\ emitted = [name |-> "none", arg |-> 0]
  /\ closedWith = {}
  /\ timeouts = 0
  /\ sockApi \in BOOLEAN
  /\ input = NoInput

\* the then-callbacks of query() that are in the microtask queue: the deferred they wait
\* on is resolved.  Socket events are dispatched only when that queue is empty.
Runnable == {q \in DOMAIN req : req[q].st = "waiting" /\ sock[req[q].promise].ready}
Idle == Runnable = {}

\* connect(): returns at once when there is a handle, otherwise creates the connection
\* and a new deferred
connect ==
  IF handle # 0
    THEN UNCHANGED <<handle, promise, sock>>
    ELSE \E t \in Transports :
           /\ sock[t].state = "none"
           /\ \A u \in Transports : u < t => sock[u].state # "none"
           /\ handle' = t
           /\ promise' = t
           /\ sock' = [sock EXCEPT ![t].state = "opening"]

Connect ==
  /\ connect
  /\ UNCHANGED <<buffer, callbacks, wire, written, answered, req, done, emitted,
                 closedWith, timeouts, sockApi, input>>

\* query(query, type) up to the registration of the then-callback; q is the id of the call
query(q, cmd, type) ==
  /\ connect
  /\ req' = [req EXCEPT ![q] = [st |-> "waiting", query |-> cmd, type |-> type,
                                promise |-> promise', reply |-> 0, wrote |-> FALSE,
                                early |-> FALSE]]
  /\ UNCHANGED <<buffer, callbacks, wire, written, answered, done, emitted,
                 closedWith, timeouts, sockApi, input>>

\* the next call of the facade: get, delete or version
Query ==
  \E q \in DOMAIN req, type \in Types :
    /\ req[q].st = "none"
    /\ \A p \in DOMAIN req : p < q => req[p].st # "none"
    /\ query(q, Command(type), type)

\* the then-callback of query(): push the entry, then write the command; with no handle
\* the write throws after the push
queryThen(q) ==
  /\ callbacks' = Append(callbacks, [type |-> req[q].type, id |-> q])
  /\ written' = IF handle = 0 THEN written ELSE [written EXCEPT ![handle] = Append(@, q)]
  /\ req' = [req EXCEPT ![q].st = "queued", ![q].wrote = (handle # 0),
                        ![q].early = (handle # 0 /\ answered[handle] = 0)]
  /\ UNCHANGED <<handle, promise, buffer, sock, wire, answered, done, emitted,
                 closedWith, timeouts, sockApi, input>>

QueryThen ==
  \E q \in Runnable :
    /\ \A p \in Runnable : q <= p
    /\ queryThen(q)

\* the 'connect' handler: this.setTimeout and this.setNoDelay are called on the session
\* object; when it has no such methods the call throws and the handler ends there
onConnect(t) ==
  IF sockApi
    THEN /\ emitted' = [name |-> "connect", arg |-> 0]
         /\ sock' = [sock EXCEPT ![t].state = "open", ![t].ready = TRUE]
    ELSE /\ emitted' = emitted
         /\ sock' = [sock EXCEPT ![t].state = "open"]

SockConnect ==
  \E t \in Transports :
    /\ Idle
    /\ sock[t].state = "opening"
    /\ onConnect(t)
    /\ UNCHANGED <<handle, promise, buffer, callbacks, wire, written, answered, req,
                   done, closedWith, timeouts, sockApi, input>>

\* the 'data' handler
onData(data) ==
  \E r \in {handleData(b, callbacks, <<>>) : b \in {buffer \o toString(data)}} :
     /\ buffer' = r.buffer
     /\ callbacks' = r.callbacks
     /\ done' = done \o r.fired

\* a 'data' event of transport t carrying the first n bytes in flight
SockData(t, n) ==
  /\ Idle
  /\ sock[t].state \in {"open", "readOnly"}
  /\ n \in 1..Len(wire[t])
  /\ \E data \in {SubSeq(wire[t], 1, n)} : onData(data)
  /\ wire' = [wire EXCEPT ![t] = SubSeq(@, n + 1, Len(@))]
  /\ UNCHANGED <<handle, promise, sock, written, answered, req, emitted, closedWith,
                 timeouts, sockApi, input>>

\* fail every entry of the queue with the same error
Drain(kind) == [i \in 1..Len(callbacks) |-> Call(callbacks[i].id, Str(kind), Undefined, 0)]

\* the 'end' handler with `if` in place of `while`: only the oldest entry is failed
onEndOldestOnly ==
  /\ IF Len(callbacks) > 0
       THEN /\ callbacks' = Tail(callbacks)
            /\ done' = Append(done, Call(callbacks[1].id, Str(sCONNECTION_CLOSED), Undefined, 0))
       ELSE UNCHANGED <<callbacks, done>>
  /\ handle' = 0

\* the 'end' handler
onEnd ==
  /\ done' = done \o Drain(sCONNECTION_CLOSED)
  /\ callbacks' = <<>>
  /\ handle' = 0

SockEnd ==
  \E t \in Transports :
    /\ Idle
    /\ sock[t].state \in {"open", "readOnly"}
    /\ wire[t] = <<>>
    /\ onEnd
    /\ sock' = [sock EXCEPT ![t].state = "ended"]
    /\ UNCHANGED <<promise, buffer, wire, written, answered, req, emitted, closedWith,
                   timeouts, sockApi, input>>

\* the 'close' handler
onClose ==
  /\ handle' = 0
  /\ emitted' = [name |-> "close", arg |-> 0]

SockClose ==
  \E t \in Transports :
    /\ Idle
    /\ sock[t].state \in {"ended", "errored"}
    /\ onClose
    /\ sock' = [sock EXCEPT ![t].state = "closed"]
    /\ UNCHANGED <<promise, buffer, callbacks, wire, written, answered, req, done,
                   closedWith, timeouts, sockApi, input>>

\* the 'timeout' handler with `while` in place of `if`: the whole queue is failed
onTimeoutDrainAll ==
  /\ done' = done \o Drain(sTIMEOUT)
  /\ callbacks' = <<>>
  /\ emitted' = [name |-> "timeout", arg |-> 0]

\* the 'timeout' handler with this.callbacks[0] in place of this.callbacks.shift(): the
\* oldest entry is failed and stays queued
onTimeoutKeepEntry ==
  /\ IF Len(callbacks) > 0
       THEN /\ callbacks' = callbacks
            /\ done' = Append(done, Call(callbacks[1].id, Str(sTIMEOUT), Undefined, 0))
       ELSE UNCHANGED <<callbacks, done>>
  /\ emitted' = [name |-> "timeout", arg |-> 0]

\* the 'timeout' handler
onTimeout ==
  /\ IF Len(callbacks) > 0
       THEN /\ callbacks' = Tail(callbacks)
            /\ done' = Append(done, Call(callbacks[1].id, Str(sTIMEOUT), Undefined, 0))
       ELSE UNCHANGED <<callbacks, done>>
  /\ emitted' = [name |-> "timeout", arg |-> 0]

SockTimeout ==
  \E t \in Transports :
    /\ Idle
    /\ sock[t].state \in {"open", "readOnly"}
    /\ timeouts < MaxTimeouts
    /\ onTimeout
    /\ timeouts' = timeouts + 1
    /\ UNCHANGED <<handle, promise, buffer, sock, wire, written, answered, req,
                   closedWith, sockApi, input>>

\* the 'error' handler without the release of the handle
onErrorKeepHandle(error) ==
  /\ done' = done \o Drain(sERROR)
  /\ callbacks' = <<>>
  /\ handle' = handle
  /\ emitted' = [name |-> "clienterror", arg |-> error]

\* the 'error' handler; the error object of transport t is written t
onError(error) ==
  /\ done' = done \o Drain(sERROR)
  /\ callbacks' = <<>>
  /\ handle' = 0
  /\ emitted' = [name |-> "clienterror", arg |-> error]

SockError ==
  \E t \in Transports :
    /\ Idle
    /\ sock[t].state \in {"opening", "open", "readOnly"}
    /\ onError(t)
    /\ sock' = [sock EXCEPT ![t].state = "errored"]
    /\ wire' = [wire EXCEPT ![t] = <<>>]
    /\ UNCHANGED <<promise, buffer, written, answered, req, closedWith, timeouts,
                   sockApi, input>>

\* close()
close ==
  IF handle # 0 /\ sock[handle].state = "open"
    THEN /\ sock' = [sock EXCEPT ![handle].state = "readOnly"]
         /\ handle' = 0
    ELSE UNCHANGED <<sock, handle>>

Close ==
  /\ close
  /\ closedWith' = IF handle # 0 /\ sock[handle].state = "open"
                     THEN closedWith \cup {callbacks[i].id : i \in 1..Len(callbacks)}
                     ELSE closedWith
  /\ UNCHANGED <<promise, buffer, callbacks, wire, written, answered, req, done,
                 emitted, timeouts, sockApi, input>>

\* the server answers the oldest command it has not answered yet
ServerReply ==
  \E t \in Transports :
    /\ sock[t].state \in {"open", "readOnly"}
    /\ answered[t] < Len(written[t])
    /\ LET q == written[t][answered[t] + 1]
       IN \E r \in SessionReplies :
            /\ Replies[r].type = req[q].type
            /\ wire' = [wire EXCEPT ![t] = @ \o Replies[r].bytes]
            /\ req' = [req EXCEPT ![q].reply = r]
    /\ answered' = [answered EXCEPT ![t] = @ + 1]
    /\ UNCHANGED <<handle, promise, buffer, callbacks, sock, written, done, emitted,
                   closedWith, timeouts, sockApi, input>>

\* In a session run a 'data' event carries everything the server has sent so far; parse
\* runs split the stream at every byte.
Next ==
  \/ Connect
  \/ Query
  \/ QueryThen
  \/ Close
  \/ SockConnect
  \/ \E t \in Transports : SockData(t, Len(wire[t]))
  \/ SockEnd
  \/ SockClose
  \/ SockTimeout
  \/ SockError
  \/ ServerReply

Spec == Init /\ [][Next]_vars

----------------------------------------------------------------------------
(* Parse runs: a connected session with a queue of pending requests receives a stream of *)
(* replies, split into 'data' events in every possible way                               *)

\* the session is connected, the requests ts are queued and written, the server has sent
\* the replies rs, and the buffer holds buf
InitAt(buf, rs, ts) ==
  /\ handle = 1
  /\ promise = 1
  /\ buffer = buf
  /\ callbacks = [i \in 1..Len(ts) |-> [type |-> ts[i], id |-> i]]
  /\ sock = [t \in Transports |->
               IF t = 1 THEN [state |-> "open", ready |-> TRUE]
               ELSE NoSocket]
  /\ wire = [t \in Transports |-> IF t = 1 THEN Stream(rs) ELSE <<>>]
  /\ written = [t \in Transports |-> IF t = 1 THEN [i \in 1..Len(ts) |-> i] ELSE <<>>]
  /\ answered = [t \in Transports |-> IF t = 1 THEN Len(ts) ELSE 0]
  /\ req = [q \in 1..Len(ts) |->
              [st |-> "queued", query |-> Command(ts[q]), type |-> ts[q], promise |-> 1,
               reply |-> 0, wrote |-> TRUE, early |-> TRUE]]
  /\ done = <<>>
  /\ emitted = [name |-> "connect", arg |-> 0]
  /\ closedWith = {}
  /\ timeouts = 0
  /\ sockApi = TRUE
  /\ input = [replies |-> rs, queue |-> ts]

\* the same with an empty buffer
InitWith(rs, ts) == InitAt(<<>>, rs, ts)

InitParse == \E rs \in Streams(MaxReplies), ts \in Queues(MaxQueue) : InitWith(rs, ts)

NextParse == \E n \in 1..Len(wire[1]) : SockData(1, n)

SpecParse == InitParse /\ [][NextParse]_vars

----------------------------------------------------------------------------
(* Event runs: the same connected sessions, with the 'data', 'end', 'close', 'timeout'   *)
(* and 'error' events of the transport in every order                                   *)

NextEvents ==
  \/ SockData(1, Len(wire[1]))
  \/ SockEnd
  \/ SockClose
  \/ SockTimeout
  \/ SockError

InitEvents ==
  \E rs \in Streams(MaxReplies) \cup {<<>>}, ts \in Queues(MaxQueue) : InitWith(rs, ts)

SpecEvents == InitEvents /\ [][NextEvents]_vars

----------------------------------------------------------------------------
(* Loop runs: the while loop of handleData, one pass of its body per step, on buffers    *)
(* made of well-formed and malformed lines                                               *)

sX == <<"x">>
\* header lines of a get reply whose length field is not a number, or is so far below
\* zero that the consumed-length computed from it is zero or negative
BadLengthHeader == sVALUE \o sp \o sKey \o sp \o <<"0">> \o sp \o sX \o CRLF
ZeroPosHeader == sVALUE \o sp \o sKey \o sp \o <<"0">> \o sp \o <<"-", "2", "2">> \o CRLF
NegativePosHeader == sVALUE \o sp \o sKey \o sp \o <<"0">> \o sp \o <<"-", "3", "0">> \o CRLF

Lines == {MissReply.bytes, HelloReply.bytes, StoredReply.bytes, NotFoundReply.bytes,
          VersionReply.bytes, CRLF, sX, BadLengthHeader, ZeroPosHeader, NegativePosHeader}

\* the buffers of one to n lines
RECURSIVE Buffers(_)
Buffers(n) ==
  IF n = 1 THEN Lines
  ELSE Buffers(n - 1) \cup {b \o l : b \in Buffers(n - 1), l \in Lines}

InitLoop == \E buf \in Buffers(MaxLines), ts \in Queues(MaxQueue) : InitAt(buf, <<>>, ts)

\* one pass of the body of the loop that does not break out of it
LoopPass ==
  /\ Len(buffer) > 0
  /\ \E r \in {loopBody(buffer, callbacks)} :
       /\ ~r.stop
       /\ buffer' = r.buffer
       /\ callbacks' = r.callbacks
       /\ done' = done \o r.calls
  /\ UNCHANGED <<handle, promise, sock, wire, written, answered, req, emitted, closedWith,
                 timeouts, sockApi, input>>

NextLoop == LoopPass

SpecLoop == InitLoop /\ [][NextLoop]_vars

----------------------------------------------------------------------------
(* Round-trip runs: a new session stores one value under a key and reads the key back    *)
(* from a server that follows the memcache ASCII protocol                                *)

sDELETED == <<"D", "E", "L", "E", "T", "E", "D">>

\* the values stored: plain text, text that looks like framing, a two-byte character
Values == {sHello, CRLF, sEND, sERROR, <<"U+00E9">>}

\* the bytes query q puts on the transport: handle.write(query + CRLF)
Sent(q) == Encode(req[q].query \o CRLF)

\* the server's reading of the bytes of one command: the fields of its command line and
\* the data block whose length the command line declares
Fields(bytes) == Split(SubSeq(bytes, 1, IndexOf(bytes, CRLF)))
DataBlock(bytes) ==
  LET start == IndexOf(bytes, CRLF) + Len(CRLF)
  IN SubSeq(bytes, start + 1, start + DigitRun(Fields(bytes)[5], 0))

\* what the server holds under key after the commands cmds, oldest first
RECURSIVE Lookup(_, _)
Lookup(cmds, key) ==
  IF cmds = <<>> THEN [found |-> FALSE, flags |-> <<>>, data |-> <<>>]
  ELSE LET last == cmds[Len(cmds)]
           f == Fields(last)
       IN IF f[1] = sSet /\ f[2] = key
            THEN [found |-> TRUE, flags |-> f[3], data |-> DataBlock(last)]
          ELSE IF f[1] = sDelete /\ f[2] = key
            THEN [found |-> FALSE, flags |-> <<>>, data |-> <<>>]
          ELSE Lookup(SubSeq(cmds, 1, Len(cmds) - 1), key)

\* the server's reply to the command cmd that follows the commands cmds
Answer(cmds, cmd) ==
  LET f == Fields(cmd)
      item == Lookup(cmds, f[2])
  IN CASE f[1] = sSet -> sSTORED \o CRLF
       [] f[1] = sGet ->
            IF item.found
              THEN sVALUE \o sp \o f[2] \o sp \o item.flags \o sp \o Decimal(Len(item.data))
                   \o CRLF \o item.data \o CRLF \o sEND \o CRLF
              ELSE sEND \o CRLF
       [] f[1] = sDelete -> (IF item.found THEN sDELETED ELSE sNOT_FOUND) \o CRLF
       [] f[1] = sVersion -> VersionReply.bytes
       [] OTHER -> sERROR \o CRLF

\* the server answers the oldest command it has not answered yet as the protocol says
ServerAnswer ==
  \E t \in Transports :
    /\ sock[t].state \in {"open", "readOnly"}
    /\ answered[t] < Len(written[t])
    /\ LET cmds == [i \in 1..answered[t] |-> Sent(written[t][i])]
           cmd == Sent(written[t][answered[t] + 1])
       IN wire' = [wire EXCEPT ![t] = @ \o Answer(cmds, cmd)]
    /\ answered' = [answered EXCEPT ![t] = @ + 1]
    /\ UNCHANGED <<handle, promise, buffer, callbacks, sock, written, req, done, emitted,
                   closedWith, timeouts, sockApi, input>>

\* set(key, value)
Set ==
  \E value \in Values :
    /\ req[1].st = "none"
    /\ query(1, store(sKey, value, sSet), "simple")

\* get(key), after the set
Get ==
  /\ req[1].st # "none"
  /\ req[2].st = "none"
  /\ query(2, get(sKey), "get")

InitRoundTrip == Init /\ sockApi

NextRoundTrip ==
  \/ Set
  \/ Get
  \/ QueryThen
  \/ SockConnect
  \/ ServerAnswer
  \/ \E n \in 1..Len(wire[1]) : SockData(1, n)

SpecRoundTrip == InitRoundTrip /\ [][NextRoundTrip]_vars

----------------------------------------------------------------------------
(* Properties *)

\* how the deferred of a query is settled by a call of its callback
Outcome(c) ==
  IF Truthy(c.error) THEN <<c.id, "rejected", c.error>> ELSE <<c.id, "resolved", c.value>>
Outcomes(calls) == [i \in 1..Len(calls) |-> Outcome(calls[i])]
\* how the protocol says reply r settles query q
Expected(q, r) ==
  IF Truthy(Replies[r].err) THEN <<q, "rejected", Replies[r].err>>
  ELSE <<q, "resolved", Replies[r].val>>
IsErrorLine(r) == Truthy(Replies[r].err)
\* replies whose payload holds nothing that looks like framing
PlainReplies == IndicesOf({MissReply, HelloReply, StoredReply, NotFoundReply, VersionReply})

Fired(q) == \E i \in 1..Len(done) : done[i].id = q
Resolved(q) == \E i \in 1..Len(done) : done[i].id = q /\ ~Truthy(done[i].error)
Rejected(q) == \E i \in 1..Len(done) : done[i].id = q /\ Truthy(done[i].error)

\* the queue a parse run started with
InputCallbacks == [i \in 1..Len(input.queue) |-> [type |-> input.queue[i], id |-> i]]
\* a parse run whose queue holds exactly the commands the replies of its stream answer
Matched ==
  /\ Len(input.queue) = Len(input.replies)
  /\ \A i \in 1..Len(input.replies) : Replies[input.replies[i]].type = input.queue[i]

\* C1: when N >= 1 queries were written on a ready connection before the server replied
\* to any of them and all N replies have been delivered, the N callbacks have been called
\* in the order of the queries, once each, each with the outcome of its own reply.
C1_Pipelining ==
  LET ids == written[1]
  IN (/\ handle = 1 /\ sock[1].state = "open" /\ sock[1].ready
      /\ \A u \in Transports : u # 1 => sock[u].state = "none"
      /\ timeouts = 0
      /\ ids # <<>>
      /\ \A i \in 1..Len(ids) : req[ids[i]].early
      /\ answered[1] = Len(ids)
      /\ wire[1] = <<>>)
     => Outcomes(done) = [i \in 1..Len(ids) |-> Expected(ids[i], req[ids[i]].reply)]

\* C2: once the whole stream of a parse run is delivered, in whatever chunks, the calls
\* made and the buffer left are those of one 'data' event carrying the whole stream.
C2_ChunkIndependence ==
  wire[1] = <<>> =>
    LET one == handleData(toString(Stream(input.replies)), InputCallbacks, <<>>)
    IN Outcomes(done) = Outcomes(one.fired) /\ buffer = one.buffer

\* C3: in a parse run whose replies match its queue and hold no framing lookalikes, every
\* request is settled by its own reply: an error line rejects the request it answers with
\* the text of the line and takes that line and its terminator off the buffer, every
\* other request is resolved with its own value.
C3_ErrorRejectsOnlyItsRequest ==
  (/\ wire[1] = <<>>
   /\ Matched
   /\ \A i \in 1..Len(input.replies) : input.replies[i] \in PlainReplies
   /\ \E i \in 1..Len(input.replies) : IsErrorLine(input.replies[i]))
  => /\ Len(done) = Len(input.replies)
     /\ \A i \in 1..Len(done) :
          /\ Outcome(done[i]) = Expected(i, input.replies[i])
          /\ IsErrorLine(input.replies[i])
               => done[i].consumed = Len(Replies[input.replies[i]].bytes)

\* the 'end' event of transport t happens in this step
EndOf(t) == sock[t].state \in {"open", "readOnly"} /\ sock'[t].state = "ended"
\* the 'error' event of transport t happens in this step
ErrorOf(t) == sock[t].state \in {"opening", "open", "readOnly"} /\ sock'[t].state = "errored"
\* a 'timeout' event happens in this step
TimeoutStep == timeouts' = timeouts + 1
\* every entry of the queue is failed with kind, oldest first, and the queue is empty
AllFailedWith(kind) ==
  /\ done' = done \o [i \in 1..Len(callbacks) |->
                        Call(callbacks[i].id, Str(kind), Undefined, 0)]
  /\ callbacks' = <<>>

\* C4: an 'end' event fails every queued request with 'CONNECTION_CLOSED', oldest first,
\* leaves the queue empty and sets the handle to null.
C4_EndFailsAll ==
  [][\A t \in Transports : EndOf(t) => AllFailedWith(sCONNECTION_CLOSED) /\ handle' = 0]_vars

\* an 'end' event has failed two queued requests in queue order
C4_Witness ==
  /\ sock[1].state = "ended" /\ handle = 0 /\ callbacks = <<>>
  /\ Len(done) = 2
  /\ \A i \in 1..2 : done[i].id = i /\ done[i].error = Str(sCONNECTION_CLOSED)

\* C5: a 'timeout' event with a non-empty queue fails exactly the oldest request with
\* 'TIMEOUT'; the other requests stay queued in their order, none of them is called, the
\* handle is kept and 'timeout' is emitted.
C5_TimeoutFailsOldest ==
  [][(TimeoutStep /\ callbacks # <<>>)
      => /\ done' = Append(done, Call(callbacks[1].id, Str(sTIMEOUT), Undefined, 0))
         /\ callbacks' = Tail(callbacks)
         /\ handle' = handle
         /\ emitted' = [name |-> "timeout", arg |-> 0]]_vars

\* a 'timeout' event has failed the oldest of two queued requests
C5_Witness ==
  /\ timeouts = 1 /\ handle = 1
  /\ Len(callbacks) = 1 /\ callbacks[1].id = 2
  /\ Len(done) = 1 /\ done[1].id = 1 /\ done[1].error = Str(sTIMEOUT)
  /\ emitted.name = "timeout"

\* C6: an 'error' event fails every queued request with 'ERROR' in queue order, leaves
\* the queue empty, sets the handle to null and emits 'clienterror' with the error.
C6_ErrorFailsAll ==
  [][\A t \in Transports :
       ErrorOf(t) => /\ AllFailedWith(sERROR)
                     /\ handle' = 0
                     /\ emitted' = [name |-> "clienterror", arg |-> t]]_vars

\* an 'error' event has failed two queued requests in queue order
C6_Witness ==
  /\ sock[1].state = "errored" /\ handle = 0 /\ callbacks = <<>>
  /\ Len(done) = 2
  /\ \A i \in 1..2 : done[i].id = i /\ done[i].error = Str(sERROR)
  /\ emitted = [name |-> "clienterror", arg |-> 1]

\* C7: once the transport a query was issued on has had its terminal event ('end' or
\* 'error'), the deferred of the query is settled.
C7_QuerySettles ==
  \A q \in DOMAIN req :
    (req[q].st # "none" /\ sock[req[q].promise].state \in {"ended", "errored", "closed"})
    => Fired(q)

\* C8: no request that was pending at a call of close() is resolved with a reply.
C8_CloseFailsOutstanding == \A q \in closedWith : ~Resolved(q)

\* C9: a get at the head of the queue whose reply is a complete VALUE frame is resolved
\* with the payload of the frame, whatever the payload holds, the frame and nothing else
\* is taken off the buffer, and the status line after it stays for the next request.
C9_GetFrame ==
  (/\ wire[1] = <<>>
   /\ input.queue = <<"get">>
   /\ Replies[input.replies[1]].type = "get" /\ Replies[input.replies[1]] # MissReply
   /\ \A i \in 2..Len(input.replies) : ~IsErrorLine(input.replies[i]))
  => /\ Len(done) = 1
     /\ Outcome(done[1]) = Expected(1, input.replies[1])
     /\ done[1].consumed = Len(toString(Replies[input.replies[1]].bytes))
     /\ buffer = toString(Stream(Tail(input.replies)))

\* the run of the example: the stream is the reply to `get k` with value hello
HelloRun ==
  /\ Len(input.replies) = 1 /\ Replies[input.replies[1]] = HelloReply
  /\ input.queue # <<>> /\ input.queue[1] = "get"
\* the get of the example is resolved with hello and n characters are taken off the buffer
HelloParsed(n) ==
  /\ wire[1] = <<>> => Len(done) >= 1
  /\ Len(done) >= 1 => /\ Outcome(done[1]) = <<1, "resolved", Str(sHello)>>
                        /\ done[1].consumed = n

\* C10: for the reply VALUE k 0 5 CRLF hello CRLF END CRLF to a pending get, the request
\* is resolved with hello and 25 characters, the whole reply, are taken off the buffer.
C10_HelloConsumes25 == HelloRun => HelloParsed(25)

\* C10 as stated: 26 bytes are consumed
C10_HelloConsumes26 == HelloRun => HelloParsed(26)

\* the get of the example has been resolved
C10_Witness == HelloRun /\ Len(done) = 1 /\ buffer = <<>> /\ wire[1] = <<>>

\* C11: when set(key, v) and then get(key) were sent to a server that follows the
\* protocol and both replies have been delivered, the set has been resolved with 'STORED',
\* the get has been resolved with v, and the buffer is empty.
C11_RoundTrip ==
  \A v \in Values :
    (/\ req[1].query = store(sKey, v, sSet)
     /\ req[2].query = get(sKey)
     /\ answered[1] = 2
     /\ wire[1] = <<>>)
    => /\ Outcomes(done) = << <<1, "resolved", Str(sSTORED)>>, <<2, "resolved", Str(v)>> >>
       /\ buffer = <<>>

\* transport t is opened in this step
Opens(t) == sock[t].state = "none" /\ sock'[t].state # "none"
\* query() is called in this step
QueryCall == \E q \in DOMAIN req : req[q].st = "none" /\ req'[q].st # "none"
\* the transports whose connection is not closed yet
Live == {t \in Transports : sock[t].state \in {"opening", "open", "readOnly"}}

\* connect() with a handle (a call of its own or the call made by query()) opens no
\* transport and leaves the deferred, the buffer, the queue and the sockets as they are
ConnectKeeps ==
  /\ handle # 0 => (\A t \in Transports : ~Opens(t)) /\ promise' = promise
  /\ (handle # 0 /\ QueryCall) => buffer' = buffer /\ callbacks' = callbacks /\ sock' = sock

\* C12: while the session has a handle no step opens a transport or replaces the deferred,
\* a call of connect() leaves buffer, queue and sockets unchanged, and at no time does
\* the session have more than one transport whose connection is not closed.
C12_ConnectIdempotent == [][ConnectKeeps /\ Cardinality(Live') <= 1]_vars

\* C13: whenever a step opens a transport, the buffer and the queue are empty at that
\* moment: nothing of the session before is carried into the new one.
C13_CleanReconnect ==
  [][\A t \in Transports : Opens(t) => buffer = <<>> /\ callbacks = <<>>]_vars

\* the calls the parse loop has made, in order
IsParsed(c) == c.consumed > 0
Parsed == SelectSeq(done, IsParsed)

\* C14: on a session that has only seen queries, 'data' events and 'timeout' events on
\* its one transport, the i-th frame the parse loop takes off the buffer is delivered to
\* the request whose command was the i-th written: a frame never goes to another request,
\* also not after a 'timeout' has failed the request it answers.
C14_Correlation ==
  (/\ handle = 1 /\ sock[1].state = "open"
   /\ \A u \in Transports : u # 1 => sock[u].state = "none")
  => \A i \in 1..Len(Parsed) : i <= Len(written[1]) /\ Parsed[i].id = written[1][i]

\* the then-callback of query q runs in this step and its write goes through
WriteOf(q) == req[q].st = "waiting" /\ req'[q].st = "queued" /\ req'[q].wrote

\* C15: when the then-callback of a query writes its command, the entry of the query is
\* in the queue, the transport written to has reported 'connect', and the entry and the
\* command come after those of every earlier call, in the queue and on the transport.
C15_EnqueueWriteOrder ==
  [][\A q \in DOMAIN req :
       WriteOf(q) =>
         /\ callbacks' = Append(callbacks, [type |-> req[q].type, id |-> q])
         /\ written' = [written EXCEPT ![handle] = Append(@, q)]
         /\ sock[handle].state # "opening"
         /\ \A i \in 1..Len(callbacks) : callbacks[i].id < q
         /\ \A i \in 1..Len(written[handle]) : written[handle][i] < q]_vars

\* the bytes the 'data' event of this step carries
Chunk == SubSeq(wire[1], 1, Len(wire[1]) - Len(wire'[1]))
\* after this step the bytes delivered so far are a proper prefix of the reply to the
\* request at the head of the queue the run started with
HeadFramePartial ==
  /\ input.queue # <<>> /\ input.replies # <<>>
  /\ Replies[input.replies[1]].type = input.queue[1]
  /\ Len(Stream(input.replies)) - Len(wire'[1]) < Len(Replies[input.replies[1]].bytes)

\* C16: a 'data' event after which the buffer holds only a proper prefix of the reply to
\* the head request appends its data to the buffer and does nothing else: no character is
\* taken off the buffer, no request is dequeued, no callback is called; and no step takes
\* more characters off the buffer than it holds.
C16_NoPartialConsume ==
  [][/\ HeadFramePartial => /\ buffer' = buffer \o toString(Chunk)
                            /\ callbacks' = callbacks
                            /\ done' = done
     /\ Len(buffer') <= Len(buffer) + Len(toString(Chunk))]_vars

\* C17: no callback is called twice (so no request is both resolved and rejected), the
\* queue holds no entry twice, and an entry whose callback has been called is not in the
\* queue.
C17_AtMostOnce ==
  /\ \A i, j \in 1..Len(done) : done[i].id = done[j].id => i = j
  /\ \A k, l \in 1..Len(callbacks) : callbacks[k].id = callbacks[l].id => k = l
  /\ \A i \in 1..Len(done), k \in 1..Len(callbacks) : callbacks[k].id # done[i].id

\* a 'timeout' has failed the first request, a 'data' event has completed the second, and
\* the transport has then ended or failed
C17_Witness ==
  /\ Len(done) = 2
  /\ done[1].id = 1 /\ done[1].error = Str(sTIMEOUT)
  /\ done[2].id = 2 /\ IsParsed(done[2])
  /\ sock[1].state \in {"ended", "errored", "closed"}
  /\ callbacks = <<>>

\* the 'close' event of transport t happens in this step
CloseOf(t) == sock[t].state \in {"ended", "errored"} /\ sock'[t].state = "closed"
\* a 'data' event of transport t happens in this step
DataOf(t) == Len(wire'[t]) < Len(wire[t]) /\ sock'[t] = sock[t]
\* an event of transport t happens in this step while the handle is another transport
StaleEvent(t) ==
  /\ handle # 0 /\ handle # t
  /\ DataOf(t) \/ EndOf(t) \/ CloseOf(t) \/ ErrorOf(t)
\* the ids in a queue, the ids called in a sequence of calls
QueuedIn(cbs) == {cbs[i].id : i \in 1..Len(cbs)}
CalledIn(calls) == {calls[i].id : i \in 1..Len(calls)}

\* C18: an event of a transport the session has dropped leaves the handle of the current
\* transport in place, appends nothing to the buffer, and neither dequeues nor calls any
\* request written on the current transport.
C18_StaleEventsIgnored ==
  [][\A t \in Transports :
       StaleEvent(t) =>
         /\ handle' = handle
         /\ buffer' = buffer
         /\ \A i \in 1..Len(written[handle]) :
              LET q == written[handle][i]
              IN /\ q \in QueuedIn(callbacks) => q \in QueuedIn(callbacks')
                 /\ q \in CalledIn(done') => q \in CalledIn(done)]_vars

\* C19: the then-callback of a query never runs without a handle: every query whose
\* entry has been pushed on the queue has had its command written to a transport.
C19_EntriesWritten == \A q \in DOMAIN req : req[q].st = "queued" => req[q].wrote

\* C20: every pass of the loop body that does not break out of the loop takes an entry
\* off the queue or takes at least one character off the buffer, whatever the buffer and
\* the queue hold, so the loop ends after at most Len(buffer) + Len(callbacks) passes.
C20_LoopProgress ==
  Len(buffer) > 0 =>
    \A r \in {loopBody(buffer, callbacks)} :
      ~r.stop => \/ Len(r.callbacks) < Len(callbacks) /\ Len(r.buffer) <= Len(buffer)
                 \/ Len(r.buffer) < Len(buffer) /\ Len(r.callbacks) <= Len(callbacks)

\* a pass has called the callback of a get with a negative consumed-length: the entry is
\* off the queue and the buffer is as it was
C20_Witness ==
  /\ buffer = NegativePosHeader
  /\ callbacks = <<>>
  /\ Len(done) = 1 /\ done[1].id = 1 /\ done[1].consumed = 0

====
